---- MODULE Spec2Model ----
(***************************************************************************)
(* mr-lisp: tokenizer (src/lexer.rs), parser (src/parser.rs) and the       *)
(* tree-walking evaluator (src/eval.rs), as a state machine.               *)
(*                                                                         *)
(* A source text is a sequence of one-character strings.  One behaviour is *)
(* one call of eval(program, env) on a fresh root environment; every       *)
(* recursive call of eval_obj is a frame on `stack`, and every handler of  *)
(* eval.rs is split at its recursive calls into an "enter" step and one    *)
(* step per return.                                                        *)
(*                                                                         *)
(* Integer is i64 in the source.  TLC computes with 32-bit integers, so    *)
(* the model keeps the two's-complement arithmetic and scales the width to *)
(* IntBits bits.  Float is f64 in the source; the model keeps a Float as   *)
(* an exact reduced fraction <<num, den>>, den > 0, and uses only          *)
(* literals whose results f64 represents exactly.                          *)
(***************************************************************************)
EXTENDS Integers, Sequences, FiniteSets, TLC

\* ------------------------------------------------------------------ bounds
IntBits == 8
MaxFib == 10

RECURSIVE Pow(_, _)
Pow(b, e) == IF e = 0 THEN 1 ELSE b * Pow(b, e - 1)

MaxInt == Pow(2, IntBits - 1) - 1
MinInt == -Pow(2, IntBits - 1)

\* ------------------------------------------------------- results of a call
Ok(o) == [kind |-> "ok", val |-> o]
Err(m) == [kind |-> "err", msg |-> m]
\* a Rust panic: the call does not return, the process aborts
Panic(m) == [kind |-> "panic", msg |-> m]

\* ------------------------------------------------------------ lexer.rs
LParen == [type |-> "LParen"]
RParen == [type |-> "RParen"]
Token(t, v) == [type |-> t, v |-> v]

keywords ==
    {"define", "list", "print", "lambda", "range", "cons", "car", "cdr",
     "length", "null?", "begin", "let", "if", "else", "cond"}

binary_ops == {"+", "-", "*", "/", "%", "<", ">", "=", "|", "&"}

Digits == <<"0", "1", "2", "3", "4", "5", "6", "7", "8", "9">>

is_whitespace(c) == c \in {" ", "\n", "\t", "\r"}

is_digit(c) == \E d \in 1..10 : Digits[d] = c

DigitVal(c) == (CHOOSE d \in 1..10 : Digits[d] = c) - 1

is_alphabetic(c) ==
    c \in {"a", "b", "c", "d", "e", "f", "g", "h", "i", "j", "k", "l", "m",
           "n", "o", "p", "q", "r", "s", "t", "u", "v", "w", "x", "y", "z"}

\* the current character at position i, None past the end
NoChar == "EOF"
current_char(s, i) == IF i <= Len(s) THEN s[i] ELSE NoChar

\* eat_whitespace: the first position >= i that holds no whitespace
RECURSIVE eat_whitespace(_, _)
eat_whitespace(s, i) ==
    IF i <= Len(s) /\ is_whitespace(s[i]) THEN eat_whitespace(s, i + 1) ELSE i

\* read_symbol: the first position >= i holding whitespace or a parenthesis
RECURSIVE SymbolEnd(_, _)
SymbolEnd(s, i) ==
    IF i <= Len(s) /\ ~is_whitespace(s[i]) /\ s[i] # "(" /\ s[i] # ")"
    THEN SymbolEnd(s, i + 1) ELSE i

\* the characters s[i..j-1] pushed onto one String
RECURSIVE Collect(_, _, _)
Collect(s, i, j) == IF i >= j THEN "" ELSE s[i] \o Collect(s, i + 1, j)

read_symbol(s, i) == [text |-> Collect(s, i, SymbolEnd(s, i)), next |-> SymbolEnd(s, i)]

\* read_number: the first position >= i that holds neither a digit nor '.'
RECURSIVE NumberEnd(_, _)
NumberEnd(s, i) ==
    IF i <= Len(s) /\ (is_digit(s[i]) \/ s[i] = ".")
    THEN NumberEnd(s, i + 1) ELSE i

read_number(s, i) == [text |-> SubSeq(s, i, NumberEnd(s, i) - 1), next |-> NumberEnd(s, i)]

\* read_string: skip the opening quote, copy up to the next quote or the end
\* of input, skip the closing quote
RECURSIVE StringEnd(_, _)
StringEnd(s, i) ==
    IF i <= Len(s) /\ s[i] # "\"" THEN StringEnd(s, i + 1) ELSE i

read_string(s, i) ==
    [text |-> Collect(s, i + 1, StringEnd(s, i + 1)), next |-> StringEnd(s, i + 1) + 1]

\* str::parse::<i64> on a run of digits: None when the value leaves the range
RECURSIVE ParseDigits(_, _)
ParseDigits(ds, acc) ==
    IF ds = <<>> THEN acc
    ELSE IF acc = -1 \/ acc * 10 + DigitVal(Head(ds)) > MaxInt THEN -1
    ELSE ParseDigits(Tail(ds), acc * 10 + DigitVal(Head(ds)))

parse_i64(ds) == ParseDigits(ds, 0)

RECURSIVE Gcd(_, _)
Gcd(a, b) == IF b = 0 THEN a ELSE Gcd(b, a % b)

Abs(a) == IF a < 0 THEN -a ELSE a

\* the Float of the fraction n/d, d # 0, as a reduced fraction
Frac(n, d) ==
    LET g == Gcd(Abs(n), Abs(d))
        sg == IF d < 0 THEN -1 ELSE 1
    IN  <<sg * (n \div g), sg * (d \div g)>>

CountDots(ds) == Cardinality({k \in 1..Len(ds) : ds[k] = "."})

DotPos(ds) == CHOOSE k \in 1..Len(ds) : ds[k] = "."

RECURSIVE DigitsValue(_, _)
DigitsValue(ds, acc) ==
    IF ds = <<>> THEN acc ELSE DigitsValue(Tail(ds), acc * 10 + DigitVal(Head(ds)))

\* str::parse::<f64> on a run of digits and dots: None with two dots or more
parse_f64(ds) ==
    IF CountDots(ds) # 1 THEN <<0, 0>>
    ELSE LET p == DotPos(ds)
             whole == SubSeq(ds, 1, p - 1)
             frac == SubSeq(ds, p + 1, Len(ds))
         IN  Frac(DigitsValue(whole \o frac, 0), Pow(10, Len(frac)))

\* next_token at position i: a token and the next position, None at the end
\* of input or on a character no arm accepts, a panic when a number's
\* parse().unwrap() fails
next_token(s, i) ==
    LET j == eat_whitespace(s, i)
        c == current_char(s, j)
    IN  IF j > Len(s) THEN [kind |-> "none"]
        ELSE IF c = "(" THEN [kind |-> "some", token |-> LParen, next |-> j + 1]
        ELSE IF c = ")" THEN [kind |-> "some", token |-> RParen, next |-> j + 1]
        ELSE IF c = "\"" THEN
            [kind |-> "some", token |-> Token("String", read_string(s, j).text),
             next |-> read_string(s, j).next]
        ELSE IF is_digit(c) THEN
            LET number_str == read_number(s, j)
            IN  IF CountDots(number_str.text) > 0
                THEN IF parse_f64(number_str.text) = <<0, 0>>
                     THEN [kind |-> "panic"]
                     ELSE [kind |-> "some",
                           token |-> Token("Float", parse_f64(number_str.text)),
                           next |-> number_str.next]
                ELSE IF parse_i64(number_str.text) = -1
                     THEN [kind |-> "panic"]
                     ELSE [kind |-> "some",
                           token |-> Token("Integer", parse_i64(number_str.text)),
                           next |-> number_str.next]
        ELSE IF c \in binary_ops THEN
            [kind |-> "some", token |-> Token("BinaryOp", c), next |-> j + 1]
        ELSE IF is_alphabetic(c) \/ c = "_" THEN
            LET symbol == read_symbol(s, j)
            IN  [kind |-> "some",
                 token |-> IF symbol.text \in keywords
                           THEN Token("Keyword", symbol.text)
                           ELSE Token("Symbol", symbol.text),
                 next |-> symbol.next]
        ELSE [kind |-> "none"]

RECURSIVE TokenizeFrom(_, _, _)
TokenizeFrom(s, i, tokens) ==
    LET t == next_token(s, i)
    IN  IF t.kind = "none" THEN Ok(tokens)
        ELSE IF t.kind = "panic" THEN Panic("called Result::unwrap() on an Err value")
        ELSE TokenizeFrom(s, t.next, Append(tokens, t.token))

tokenize(input) == TokenizeFrom(input, 1, <<>>)

\* ------------------------------------------------------------ parser.rs
\* Object; each variant keeps its payload in a field of its own
Void == [tag |-> "Void"]
Keyword(s) == [tag |-> "Keyword", v |-> s]
BinaryOp(s) == [tag |-> "BinaryOp", v |-> s]
Integer(n) == [tag |-> "Integer", int |-> n]
Float(f) == [tag |-> "Float", float |-> f]
Bool(b) == [tag |-> "Bool", bool |-> b]
String(s) == [tag |-> "String", v |-> s]
Symbol(s) == [tag |-> "Symbol", v |-> s]
ListData(l) == [tag |-> "ListData", items |-> l]
Lambda(params, body) == [tag |-> "Lambda", params |-> params, body |-> body]
List(l) == [tag |-> "List", items |-> l]

ParseError(m) == [kind |-> "err", msg |-> m]

\* the Object a literal token becomes in parse_list's match
TokenObject(t) ==
    CASE t.type = "Integer" -> Integer(t.v)
      [] t.type = "Float" -> Float(t.v)
      [] t.type = "String" -> String(t.v)
      [] t.type = "Symbol" -> Symbol(t.v)
      [] t.type = "BinaryOp" -> BinaryOp(t.v)
      [] t.type = "Keyword" -> Keyword(t.v)

\* parse_list on the token stack (its top is the head of `tokens`): the
\* parsed List and the tokens left on the stack, or a ParseError
RECURSIVE parse_list(_)
RECURSIVE ParseItems(_, _)
parse_list(tokens) ==
    IF tokens = <<>> \/ Head(tokens) # LParen
    THEN ParseError("Expected '(' at the beginning of list")
    ELSE ParseItems(Tail(tokens), <<>>)

\* the while loop of parse_list
ParseItems(tokens, list) ==
    IF tokens = <<>> THEN ParseError("Expected ')' at the end of list")
    ELSE LET t == Head(tokens)
         IN  IF t = LParen THEN
                 LET sublist == parse_list(tokens)
                 IN  IF sublist.kind = "err" THEN sublist
                     ELSE ParseItems(sublist.rest, Append(list, sublist.val))
             ELSE IF t = RParen THEN
                 [kind |-> "ok", val |-> List(list), rest |-> Tail(tokens)]
             ELSE ParseItems(Tail(tokens), Append(list, TokenObject(t)))

\* parse with a bare literal accepted as the root
parse_bare_atom(program) ==
    LET tokens == tokenize(program)
    IN  IF tokens.kind = "panic" THEN tokens
        ELSE IF tokens.val # <<>> /\ Head(tokens.val) \notin {LParen, RParen}
        THEN Ok(TokenObject(Head(tokens.val)))
        ELSE LET parsed_list == parse_list(tokens.val)
             IN  IF parsed_list.kind = "err" THEN parsed_list
                 ELSE Ok(parsed_list.val)

parse(program) ==
    LET tokens == tokenize(program)
    IN  IF tokens.kind = "panic" THEN tokens
        ELSE LET parsed_list == parse_list(tokens.val)
             IN  IF parsed_list.kind = "err" THEN parsed_list
                 ELSE Ok(parsed_list.val)

\* ------------------------------------------------------------ eval.rs: Env
EmptyVars == [n \in {} |-> Void]

Env_new == [parent |-> 0, vars |-> EmptyVars]

\* Env::extend chaining every call scope under the root scope
Env_extend_global(parent) == [parent |-> 1, vars |-> EmptyVars]

Env_extend(parent) == [parent |-> parent, vars |-> EmptyVars]

\* Env::get in the arena `es` of scopes: local first, then the parent chain
RECURSIVE Env_get(_, _, _)
Env_get(es, e, name) ==
    IF name \in DOMAIN es[e].vars THEN [kind |-> "some", val |-> es[e].vars[name]]
    ELSE IF es[e].parent = 0 THEN [kind |-> "none"]
    ELSE Env_get(es, es[e].parent, name)

\* an insert that keeps the value of a name already bound
Insert_keep(m, name, val) ==
    [n \in DOMAIN m \cup {name} |-> IF n \in DOMAIN m THEN m[n] ELSE val]

\* HashMap::insert
Insert(m, name, val) ==
    [n \in DOMAIN m \cup {name} |-> IF n = name THEN val ELSE m[n]]

\* the nearest scope from e up the chain that binds name, or local when none
RECURSIVE Owner(_, _, _, _)
Owner(es, e, name, local) ==
    IF name \in DOMAIN es[e].vars THEN e
    ELSE IF es[e].parent = 0 THEN local
    ELSE Owner(es, es[e].parent, name, local)

\* a set that overwrites the binding of an outer scope when there is one
Env_set_outer(es, e, name, val) ==
    [es EXCEPT ![Owner(es, e, name, e)].vars = Insert(@, name, val)]

\* Env::set on the scope e of the arena
Env_set(es, e, name, val) == [es EXCEPT ![e].vars = Insert(@, name, val)]

\* ------------------------------------------------- eval.rs: arithmetic
IsNumber(o) == o.tag \in {"Integer", "Float"}

\* `as f64`
AsF64(o) == IF o.tag = "Integer" THEN <<o.int, 1>> ELSE o.float

InRange(n) == MinInt <= n /\ n <= MaxInt

\* two's-complement wrap to IntBits bits
Wrap(n) == ((n - MinInt) % Pow(2, IntBits)) + MinInt

\* i64 division truncates toward zero
TruncDiv(l, r) ==
    LET q == Abs(l) \div Abs(r)
    IN  IF (l < 0) = (r < 0) THEN q ELSE -q

\* l + r, l - r, l * r on i64: a debug build panics on overflow, a release
\* build wraps
Overflowing(bld, exact, what) ==
    IF InRange(exact) THEN Ok(Integer(exact))
    ELSE IF bld = "debug" THEN Panic("attempt to " \o what \o " with overflow")
    ELSE Ok(Integer(Wrap(exact)))

\* the (Integer, Integer) arms of eval_binary_op
IntegerOp(bld, s, l, r) ==
    CASE s = "+" -> Overflowing(bld, l + r, "add")
      [] s = "-" -> Overflowing(bld, l - r, "subtract")
      [] s = "*" -> Overflowing(bld, l * r, "multiply")
      [] s = "/" -> IF r = 0 THEN Err("Division by zero")
                    ELSE IF l = MinInt /\ r = -1
                         THEN Panic("attempt to divide with overflow")
                    ELSE Ok(Integer(TruncDiv(l, r)))
      [] s = "<" -> Ok(Bool(l < r))
      [] s = ">" -> Ok(Bool(l > r))

\* the Float arms without the test of the divisor; <<1, 0>> stands for inf
FloatOp_unchecked(s, l, r) ==
    CASE s = "+" -> Ok(Float(Frac(l[1] * r[2] + r[1] * l[2], l[2] * r[2])))
      [] s = "-" -> Ok(Float(Frac(l[1] * r[2] - r[1] * l[2], l[2] * r[2])))
      [] s = "*" -> Ok(Float(Frac(l[1] * r[1], l[2] * r[2])))
      [] s = "/" -> IF r[1] = 0 THEN Ok(Float(<<1, 0>>))
                    ELSE Ok(Float(Frac(l[1] * r[2], l[2] * r[1])))
      [] s = "<" -> Ok(Bool(l[1] * r[2] < r[1] * l[2]))
      [] s = ">" -> Ok(Bool(l[1] * r[2] > r[1] * l[2]))

\* the arms of eval_binary_op with at least one Float operand, on fractions
FloatOp(s, l, r) ==
    CASE s = "+" -> Ok(Float(Frac(l[1] * r[2] + r[1] * l[2], l[2] * r[2])))
      [] s = "-" -> Ok(Float(Frac(l[1] * r[2] - r[1] * l[2], l[2] * r[2])))
      [] s = "*" -> Ok(Float(Frac(l[1] * r[1], l[2] * r[2])))
      [] s = "/" -> IF r[1] = 0 THEN Err("Division by zero")
                    ELSE Ok(Float(Frac(l[1] * r[2], l[2] * r[1])))
      [] s = "<" -> Ok(Bool(l[1] * r[2] < r[1] * l[2]))
      [] s = ">" -> Ok(Bool(l[1] * r[2] > r[1] * l[2]))

\* the match of eval_binary_op on the operator and the evaluated operands
BinaryOpResult(bld, s, left, right) ==
    IF s \notin {"+", "-", "*", "/", "<", ">"}
    THEN Err("Unsupported binary operator")
    ELSE IF ~IsNumber(left) \/ ~IsNumber(right)
    THEN Err("Invalid operands for " \o s)
    ELSE IF left.tag = "Integer" /\ right.tag = "Integer"
    THEN IntegerOp(bld, s, left.int, right.int)
    ELSE FloatOp(s, AsF64(left), AsF64(right))

\* ------------------------------------------ eval.rs: pure handlers
\* eval_symbol
eval_symbol(es, e, symbol) ==
    LET value == Env_get(es, e, symbol)
    IN  IF value.kind = "some" THEN Ok(value.val) ELSE Err("Undefined symbol")

\* the arms of eval_obj that make no recursive call
EvalAtom(es, e, obj) ==
    CASE obj.tag \in {"Void", "Bool", "Integer", "Float", "String"} -> Ok(obj)
      [] obj.tag = "ListData" -> Panic("not implemented")
      [] obj.tag = "Symbol" -> eval_symbol(es, e, obj.v)
      [] obj.tag = "Lambda" -> Ok(Void)
      [] OTHER -> Err("Invalid object")

\* the params loop of eval_function_definition: the names, or the error of
\* the first parameter that is no Symbol
ParamNames(ps) ==
    IF \E k \in 1..Len(ps) : ps[k].tag # "Symbol"
    THEN Err("Invalid lamdba parameter")
    ELSE Ok([k \in 1..Len(ps) |-> ps[k].v])

\* eval_function_definition; list[1] and list[2] of the source are list[2]
\* and list[3] here, and indexing past the end panics
FunctionDefinition(list) ==
    IF Len(list) < 2 THEN Panic("index out of bounds")
    ELSE IF list[2].tag # "List" THEN Err("Invalid lambda parameters")
    ELSE IF ParamNames(list[2].items).kind = "err" THEN ParamNames(list[2].items)
    ELSE IF Len(list) < 3 THEN Panic("index out of bounds")
    ELSE IF list[3].tag # "List" THEN Err("Invalid lambda body")
    ELSE Ok(Lambda(ParamNames(list[2].items).val, list[3].items))

\* the stored body evaluated as a sequence of expressions
CallBody_sequence(body) == List(<<Keyword("begin")>> \o body)

\* the expression eval_function_call evaluates for a stored body
CallBody(body) == List(body)

\* the branches exchanged
IfBranch_swapped(cond) == IF cond THEN 4 ELSE 3

\* the branch eval_if selects (1-based position in the form)
IfBranch(cond) == IF cond THEN 3 ELSE 4

\* ------------------------------------------------ the programs evaluated
\* (+ 1 2)
P_SimpleAdd ==
    <<"(", "+", " ", "1", " ", "2", ")">>

\* (begin (define x 5) (define y 10) (+ x y))
P_BeginDefine ==
    <<"(", "b", "e", "g", "i", "n", " ", "(", "d", "e", "f", "i", "n", "e",
      " ", "x", " ", "5", ")", " ", "(", "d", "e", "f", "i", "n", "e", " ",
      "y", " ", "1", "0", ")", " ", "(", "+", " ", "x", " ", "y", ")", ")">>

\* (begin)
P_BeginEmpty ==
    <<"(", "b", "e", "g", "i", "n", ")">>

\* (begin (define x 5) (define x (+ x 1)) x)
P_BeginRedefine ==
    <<"(", "b", "e", "g", "i", "n", " ", "(", "d", "e", "f", "i", "n", "e",
      " ", "x", " ", "5", ")", " ", "(", "d", "e", "f", "i", "n", "e", " ",
      "x", " ", "(", "+", " ", "x", " ", "1", ")", ")", " ", "x", ")">>

\* (begin "hi" 2.5)
P_BeginString ==
    <<"(", "b", "e", "g", "i", "n", " ", "\"", "h", "i", "\"", " ", "2", ".",
      "5", ")">>

\* (begin  (define sqr (lambda (x) (* x x)))  (sqr 10))
P_Sqr ==
    <<"(", "b", "e", "g", "i", "n", "\n", " ", "(", "d", "e", "f", "i", "n",
      "e", " ", "s", "q", "r", " ", "(", "l", "a", "m", "b", "d", "a", " ",
      "(", "x", ")", " ", "(", "*", " ", "x", " ", "x", ")", ")", ")", "\n",
      " ", "(", "s", "q", "r", " ", "1", "0", ")", ")">>

\* (begin (define g (lambda (a) (+ a y))) (define f (lambda (y) (g 1))) (f 5))
P_DynamicScope ==
    <<"(", "b", "e", "g", "i", "n", " ", "(", "d", "e", "f", "i", "n", "e",
      " ", "g", " ", "(", "l", "a", "m", "b", "d", "a", " ", "(", "a", ")",
      " ", "(", "+", " ", "a", " ", "y", ")", ")", ")", " ", "(", "d", "e",
      "f", "i", "n", "e", " ", "f", " ", "(", "l", "a", "m", "b", "d", "a",
      " ", "(", "y", ")", " ", "(", "g", " ", "1", ")", ")", ")", " ", "(",
      "f", " ", "5", ")", ")">>

\* (begin (define f (lambda (a a) (+ a 0))) (f 1 2))
P_DupParams ==
    <<"(", "b", "e", "g", "i", "n", " ", "(", "d", "e", "f", "i", "n", "e",
      " ", "f", " ", "(", "l", "a", "m", "b", "d", "a", " ", "(", "a", " ",
      "a", ")", " ", "(", "+", " ", "a", " ", "0", ")", ")", ")", " ", "(",
      "f", " ", "1", " ", "2", ")", ")">>

\* (begin (define f (lambda (a b) (- a b))) (f 7 2))
P_ArgOrder ==
    <<"(", "b", "e", "g", "i", "n", " ", "(", "d", "e", "f", "i", "n", "e",
      " ", "f", " ", "(", "l", "a", "m", "b", "d", "a", " ", "(", "a", " ",
      "b", ")", " ", "(", "-", " ", "a", " ", "b", ")", ")", ")", " ", "(",
      "f", " ", "7", " ", "2", ")", ")">>

\* (begin (define x 1) (define f (lambda (x y) (+ x y))) (f 5 x))
P_ArgsInCaller ==
    <<"(", "b", "e", "g", "i", "n", " ", "(", "d", "e", "f", "i", "n", "e",
      " ", "x", " ", "1", ")", " ", "(", "d", "e", "f", "i", "n", "e", " ",
      "f", " ", "(", "l", "a", "m", "b", "d", "a", " ", "(", "x", " ", "y",
      ")", " ", "(", "+", " ", "x", " ", "y", ")", ")", ")", " ", "(", "f",
      " ", "5", " ", "x", ")", ")">>

\* (begin (define f (lambda (a b) (- a b))) (f (f 9 2) (f 3 1)))
P_NestedArgCall ==
    <<"(", "b", "e", "g", "i", "n", " ", "(", "d", "e", "f", "i", "n", "e",
      " ", "f", " ", "(", "l", "a", "m", "b", "d", "a", " ", "(", "a", " ",
      "b", ")", " ", "(", "-", " ", "a", " ", "b", ")", ")", ")", " ", "(",
      "f", " ", "(", "f", " ", "9", " ", "2", ")", " ", "(", "f", " ", "3",
      " ", "1", ")", ")", ")">>

\* (begin (define k (lambda () (+ 1 2))) (k))
P_NoParams ==
    <<"(", "b", "e", "g", "i", "n", " ", "(", "d", "e", "f", "i", "n", "e",
      " ", "k", " ", "(", "l", "a", "m", "b", "d", "a", " ", "(", ")", " ",
      "(", "+", " ", "1", " ", "2", ")", ")", ")", " ", "(", "k", ")", ")">>

\* (begin (define f (lambda (x) (* x x))) (f 3 (/ 1 0)))
P_ExtraArgs ==
    <<"(", "b", "e", "g", "i", "n", " ", "(", "d", "e", "f", "i", "n", "e",
      " ", "f", " ", "(", "l", "a", "m", "b", "d", "a", " ", "(", "x", ")",
      " ", "(", "*", " ", "x", " ", "x", ")", ")", ")", " ", "(", "f", " ",
      "3", " ", "(", "/", " ", "1", " ", "0", ")", ")", ")">>

\* (begin (lambda (x) (* x x)))
P_LambdaValue ==
    <<"(", "b", "e", "g", "i", "n", " ", "(", "l", "a", "m", "b", "d", "a",
      " ", "(", "x", ")", " ", "(", "*", " ", "x", " ", "x", ")", ")", ")">>

\* (begin (define x 1) (define f (lambda (a) (begin (define x a) (+ x 1)))) (+ (f 5) x))
P_DefineInBody ==
    <<"(", "b", "e", "g", "i", "n", " ", "(", "d", "e", "f", "i", "n", "e",
      " ", "x", " ", "1", ")", " ", "(", "d", "e", "f", "i", "n", "e", " ",
      "f", " ", "(", "l", "a", "m", "b", "d", "a", " ", "(", "a", ")", " ",
      "(", "b", "e", "g", "i", "n", " ", "(", "d", "e", "f", "i", "n", "e",
      " ", "x", " ", "a", ")", " ", "(", "+", " ", "x", " ", "1", ")", ")",
      ")", ")", " ", "(", "+", " ", "(", "f", " ", "5", ")", " ", "x", ")",
      ")">>

\* (define)
P_Define0 ==
    <<"(", "d", "e", "f", "i", "n", "e", ")">>

\* (define x)
P_Define1 ==
    <<"(", "d", "e", "f", "i", "n", "e", " ", "x", ")">>

\* (if (< 1 2))
P_If1True ==
    <<"(", "i", "f", " ", "(", "<", " ", "1", " ", "2", ")", ")">>

\* (if (> 1 2) 1)
P_If2False ==
    <<"(", "i", "f", " ", "(", ">", " ", "1", " ", "2", ")", " ", "1", ")">>

\* (if c)
P_If1Undefined ==
    <<"(", "i", "f", " ", "c", ")">>

\* (if)
P_If0 ==
    <<"(", "i", "f", ")">>

\* (lambda)
P_Lambda0 ==
    <<"(", "l", "a", "m", "b", "d", "a", ")">>

\* (lambda (x))
P_Lambda1 ==
    <<"(", "l", "a", "m", "b", "d", "a", " ", "(", "x", ")", ")">>

\* (if (< 1 2) 10 (/ 1 0))
P_IfLazyTrue ==
    <<"(", "i", "f", " ", "(", "<", " ", "1", " ", "2", ")", " ", "1", "0",
      " ", "(", "/", " ", "1", " ", "0", ")", ")">>

\* (if (> 1 2) (/ 1 0) 20)
P_IfLazyFalse ==
    <<"(", "i", "f", " ", "(", ">", " ", "1", " ", "2", ")", " ", "(", "/",
      " ", "1", " ", "0", ")", " ", "2", "0", ")">>

\* (if (< 1 2) 10 20)
P_IfPlain ==
    <<"(", "i", "f", " ", "(", "<", " ", "1", " ", "2", ")", " ", "1", "0",
      " ", "2", "0", ")">>

\* (if 1 (define a 1) (define b 2))
P_IfNotBool ==
    <<"(", "i", "f", " ", "1", " ", "(", "d", "e", "f", "i", "n", "e", " ",
      "a", " ", "1", ")", " ", "(", "d", "e", "f", "i", "n", "e", " ", "b",
      " ", "2", ")", ")">>

\* (begin (if (< 1 2) (define a 1) (define b 2)) (if (> 1 2) (define c 3) (define d 4)))
P_IfDefines ==
    <<"(", "b", "e", "g", "i", "n", " ", "(", "i", "f", " ", "(", "<", " ",
      "1", " ", "2", ")", " ", "(", "d", "e", "f", "i", "n", "e", " ", "a",
      " ", "1", ")", " ", "(", "d", "e", "f", "i", "n", "e", " ", "b", " ",
      "2", ")", ")", " ", "(", "i", "f", " ", "(", ">", " ", "1", " ", "2",
      ")", " ", "(", "d", "e", "f", "i", "n", "e", " ", "c", " ", "3", ")",
      " ", "(", "d", "e", "f", "i", "n", "e", " ", "d", " ", "4", ")", ")",
      ")">>

\* (if (< 1 2) 7)
P_If2True ==
    <<"(", "i", "f", " ", "(", "<", " ", "1", " ", "2", ")", " ", "7", ")">>

\* (if (/ 1 0) 1 2)
P_IfCondFails ==
    <<"(", "i", "f", " ", "(", "/", " ", "1", " ", "0", ")", " ", "1", " ",
      "2", ")">>

\* + 1 2)
P_NoOpen ==
    <<"+", " ", "1", " ", "2", ")">>

\* (+ 1 2
P_NoClose ==
    <<"(", "+", " ", "1", " ", "2">>

\* (+ 1 2) (+ 3 4)
P_Siblings ==
    <<"(", "+", " ", "1", " ", "2", ")", " ", "(", "+", " ", "3", " ", "4",
      ")">>

\* (+ 1 2))
P_StrayClose ==
    <<"(", "+", " ", "1", " ", "2", ")", ")">>

\* (+ 1 2) x
P_TrailingAtom ==
    <<"(", "+", " ", "1", " ", "2", ")", " ", "x">>

\* 
P_Empty == <<>>

\* )
P_OnlyClose ==
    <<")">>

\* ((+ 1 2)
P_InnerOpen ==
    <<"(", "(", "+", " ", "1", " ", "2", ")">>

\* (+ 1 2 #)
P_UnknownChar ==
    <<"(", "+", " ", "1", " ", "2", " ", "#", ")">>

\* (+ 1 2) #
P_UnknownCharAfter ==
    <<"(", "+", " ", "1", " ", "2", ")", " ", "#">>

\* (+ 1.2.3 1)
P_TwoDots ==
    <<"(", "+", " ", "1", ".", "2", ".", "3", " ", "1", ")">>

\* (begin "abc
P_OpenString ==
    <<"(", "b", "e", "g", "i", "n", " ", "\"", "a", "b", "c">>

\* 007
P_LeadingZeros ==
    <<"0", "0", "7">>

\*  5 
P_PaddedLiteral ==
    <<" ", "5", " ">>

\* (begin (define f (lambda (x y) (+ x y))) (f 1))
P_TooFew1of2 ==
    <<"(", "b", "e", "g", "i", "n", " ", "(", "d", "e", "f", "i", "n", "e",
      " ", "f", " ", "(", "l", "a", "m", "b", "d", "a", " ", "(", "x", " ",
      "y", ")", " ", "(", "+", " ", "x", " ", "y", ")", ")", ")", " ", "(",
      "f", " ", "1", ")", ")">>

\* (begin (define f (lambda (x) (* x x))) (f))
P_TooFew0of1 ==
    <<"(", "b", "e", "g", "i", "n", " ", "(", "d", "e", "f", "i", "n", "e",
      " ", "f", " ", "(", "l", "a", "m", "b", "d", "a", " ", "(", "x", ")",
      " ", "(", "*", " ", "x", " ", "x", ")", ")", ")", " ", "(", "f", ")",
      ")">>

\* (begin (define f (lambda (x y) (define z 1))) (f (define w 2)))
P_TooFewSideEffect ==
    <<"(", "b", "e", "g", "i", "n", " ", "(", "d", "e", "f", "i", "n", "e",
      " ", "f", " ", "(", "l", "a", "m", "b", "d", "a", " ", "(", "x", " ",
      "y", ")", " ", "(", "d", "e", "f", "i", "n", "e", " ", "z", " ", "1",
      ")", ")", ")", " ", "(", "f", " ", "(", "d", "e", "f", "i", "n", "e",
      " ", "w", " ", "2", ")", ")", ")">>

\* (begin (define f (lambda (x) ((define y 1) (+ x y)))) (f 1))
P_BodySequence ==
    <<"(", "b", "e", "g", "i", "n", " ", "(", "d", "e", "f", "i", "n", "e",
      " ", "f", " ", "(", "l", "a", "m", "b", "d", "a", " ", "(", "x", ")",
      " ", "(", "(", "d", "e", "f", "i", "n", "e", " ", "y", " ", "1", ")",
      " ", "(", "+", " ", "x", " ", "y", ")", ")", ")", ")", " ", "(", "f",
      " ", "1", ")", ")">>

\* (begin (define f (lambda (x) (+ x 1) (+ x 2))) (f 1))
P_BodyTwoForms ==
    <<"(", "b", "e", "g", "i", "n", " ", "(", "d", "e", "f", "i", "n", "e",
      " ", "f", " ", "(", "l", "a", "m", "b", "d", "a", " ", "(", "x", ")",
      " ", "(", "+", " ", "x", " ", "1", ")", " ", "(", "+", " ", "x", " ",
      "2", ")", ")", ")", " ", "(", "f", " ", "1", ")", ")">>

\* (begin (define f (lambda (x) x)) (f 1))
P_BodyAtom ==
    <<"(", "b", "e", "g", "i", "n", " ", "(", "d", "e", "f", "i", "n", "e",
      " ", "f", " ", "(", "l", "a", "m", "b", "d", "a", " ", "(", "x", ")",
      " ", "x", ")", ")", " ", "(", "f", " ", "1", ")", ")">>

\* (begin (define f (lambda (x) (begin (define y 2) (* x y)))) (f 4))
P_BodyBegin ==
    <<"(", "b", "e", "g", "i", "n", " ", "(", "d", "e", "f", "i", "n", "e",
      " ", "f", " ", "(", "l", "a", "m", "b", "d", "a", " ", "(", "x", ")",
      " ", "(", "b", "e", "g", "i", "n", " ", "(", "d", "e", "f", "i", "n",
      "e", " ", "y", " ", "2", ")", " ", "(", "*", " ", "x", " ", "y", ")",
      ")", ")", ")", " ", "(", "f", " ", "4", ")", ")">>

\* (begin (define f (lambda (x) ())) (f 1))
P_BodyEmpty ==
    <<"(", "b", "e", "g", "i", "n", " ", "(", "d", "e", "f", "i", "n", "e",
      " ", "f", " ", "(", "l", "a", "m", "b", "d", "a", " ", "(", "x", ")",
      " ", "(", ")", ")", ")", " ", "(", "f", " ", "1", ")", ")">>

\* ()
P_EmptyList ==
    <<"(", ")">>

\* (1 2)
P_InvalidListOp ==
    <<"(", "1", " ", "2", ")">>

\* (let x 1)
P_UnsupportedKeyword ==
    <<"(", "l", "e", "t", " ", "x", " ", "1", ")">>

\* (nosuch 1 2)
P_UndefinedFunction ==
    <<"(", "n", "o", "s", "u", "c", "h", " ", "1", " ", "2", ")">>

\* (begin (define x 5) (x 1))
P_NotAFunction ==
    <<"(", "b", "e", "g", "i", "n", " ", "(", "d", "e", "f", "i", "n", "e",
      " ", "x", " ", "5", ")", " ", "(", "x", " ", "1", ")", ")">>

\* (begin +)
P_BareOperator ==
    <<"(", "b", "e", "g", "i", "n", " ", "+", ")">>

\* (define 1 2)
P_DefineNotSymbol ==
    <<"(", "d", "e", "f", "i", "n", "e", " ", "1", " ", "2", ")">>

\* (lambda x (x))
P_LambdaParamsAtom ==
    <<"(", "l", "a", "m", "b", "d", "a", " ", "x", " ", "(", "x", ")", ")">>

\* (lambda (1) (x))
P_LambdaParamNotSymbol ==
    <<"(", "l", "a", "m", "b", "d", "a", " ", "(", "1", ")", " ", "(", "x",
      ")", ")">>

\* (+ 1)
P_AddOne ==
    <<"(", "+", " ", "1", ")">>

\* (+ 1 2 3)
P_AddThree ==
    <<"(", "+", " ", "1", " ", "2", " ", "3", ")">>

\* (+)
P_AddNone ==
    <<"(", "+", ")">>

\* (begin (define f (lambda (x) (* x x))) (f (/ 1 0)))
P_ArgFails ==
    <<"(", "b", "e", "g", "i", "n", " ", "(", "d", "e", "f", "i", "n", "e",
      " ", "f", " ", "(", "l", "a", "m", "b", "d", "a", " ", "(", "x", ")",
      " ", "(", "*", " ", "x", " ", "x", ")", ")", ")", " ", "(", "f", " ",
      "(", "/", " ", "1", " ", "0", ")", ")", ")">>

\* (begin (define f (lambda (x) (/ x 0))) (define x 3) (f 1))
P_BodyFails ==
    <<"(", "b", "e", "g", "i", "n", " ", "(", "d", "e", "f", "i", "n", "e",
      " ", "f", " ", "(", "l", "a", "m", "b", "d", "a", " ", "(", "x", ")",
      " ", "(", "/", " ", "x", " ", "0", ")", ")", ")", " ", "(", "d", "e",
      "f", "i", "n", "e", " ", "x", " ", "3", ")", " ", "(", "f", " ", "1",
      ")", ")">>

FixedPrograms ==
    {P_SimpleAdd, P_BeginDefine, P_BeginEmpty, P_BeginRedefine,
     P_BeginString, P_Sqr, P_DynamicScope, P_DupParams, P_ArgOrder,
     P_ArgsInCaller, P_NestedArgCall, P_NoParams, P_ExtraArgs,
     P_LambdaValue, P_DefineInBody, P_Define0, P_Define1, P_If1True,
     P_If2False, P_If1Undefined, P_If0, P_Lambda0, P_Lambda1, P_IfLazyTrue,
     P_IfLazyFalse, P_IfPlain, P_IfNotBool, P_IfDefines, P_If2True,
     P_IfCondFails, P_NoOpen, P_NoClose, P_Siblings, P_StrayClose,
     P_TrailingAtom, P_Empty, P_OnlyClose, P_InnerOpen, P_UnknownChar,
     P_UnknownCharAfter, P_TwoDots, P_OpenString, P_LeadingZeros,
     P_PaddedLiteral, P_TooFew1of2, P_TooFew0of1, P_TooFewSideEffect,
     P_BodySequence, P_BodyTwoForms, P_BodyAtom, P_BodyBegin, P_BodyEmpty,
     P_EmptyList, P_InvalidListOp, P_UnsupportedKeyword,
     P_UndefinedFunction, P_NotAFunction, P_BareOperator,
     P_DefineNotSymbol, P_LambdaParamsAtom, P_LambdaParamNotSymbol,
     P_AddOne, P_AddThree, P_AddNone, P_ArgFails, P_BodyFails}

\* programs with a define inside a body, and programs that fail part-way
\* (begin (define f (lambda (a) (define z a))) (f 1) z)
P_BodyDefineLocal ==
    <<"(", "b", "e", "g", "i", "n", " ", "(", "d", "e", "f", "i", "n", "e",
      " ", "f", " ", "(", "l", "a", "m", "b", "d", "a", " ", "(", "a", ")",
      " ", "(", "d", "e", "f", "i", "n", "e", " ", "z", " ", "a", ")", ")",
      ")", " ", "(", "f", " ", "1", ")", " ", "z", ")">>

\* (begin (define n 9) (define g (lambda (k) (begin (define n k) (if (< k 1) n (g (- k 1)))))) (+ (g 2) n))
P_RecursiveDefine ==
    <<"(", "b", "e", "g", "i", "n", " ", "(", "d", "e", "f", "i", "n", "e",
      " ", "n", " ", "9", ")", " ", "(", "d", "e", "f", "i", "n", "e", " ",
      "g", " ", "(", "l", "a", "m", "b", "d", "a", " ", "(", "k", ")", " ",
      "(", "b", "e", "g", "i", "n", " ", "(", "d", "e", "f", "i", "n", "e",
      " ", "n", " ", "k", ")", " ", "(", "i", "f", " ", "(", "<", " ", "k",
      " ", "1", ")", " ", "n", " ", "(", "g", " ", "(", "-", " ", "k", " ",
      "1", ")", ")", ")", ")", ")", ")", " ", "(", "+", " ", "(", "g", " ",
      "2", ")", " ", "n", ")", ")">>

\* (begin (define h (lambda (v) (define v 0))) (define f (lambda (v) (begin (h 1) v))) (f 5))
P_NestedShadow ==
    <<"(", "b", "e", "g", "i", "n", " ", "(", "d", "e", "f", "i", "n", "e",
      " ", "h", " ", "(", "l", "a", "m", "b", "d", "a", " ", "(", "v", ")",
      " ", "(", "d", "e", "f", "i", "n", "e", " ", "v", " ", "0", ")", ")",
      ")", " ", "(", "d", "e", "f", "i", "n", "e", " ", "f", " ", "(", "l",
      "a", "m", "b", "d", "a", " ", "(", "v", ")", " ", "(", "b", "e", "g",
      "i", "n", " ", "(", "h", " ", "1", ")", " ", "v", ")", ")", ")", " ",
      "(", "f", " ", "5", ")", ")">>

\* (begin (define x 5) (/ 1 0))
P_FailAfterDefine ==
    <<"(", "b", "e", "g", "i", "n", " ", "(", "d", "e", "f", "i", "n", "e",
      " ", "x", " ", "5", ")", " ", "(", "/", " ", "1", " ", "0", ")", ")">>

\* (begin (define x 5) (/ 1 0) (define y 2))
P_FailSkipsRest ==
    <<"(", "b", "e", "g", "i", "n", " ", "(", "d", "e", "f", "i", "n", "e",
      " ", "x", " ", "5", ")", " ", "(", "/", " ", "1", " ", "0", ")", " ",
      "(", "d", "e", "f", "i", "n", "e", " ", "y", " ", "2", ")", ")">>

\* (begin (define x 5) (+ (/ 1 0) (define y 2)))
P_FailInOperand ==
    <<"(", "b", "e", "g", "i", "n", " ", "(", "d", "e", "f", "i", "n", "e",
      " ", "x", " ", "5", ")", " ", "(", "+", " ", "(", "/", " ", "1", " ",
      "0", ")", " ", "(", "d", "e", "f", "i", "n", "e", " ", "y", " ", "2",
      ")", ")", ")">>

\* (begin (define f (lambda (a b) (+ a b))) (f (define p 1) (/ 1 0)))
P_FailInArg ==
    <<"(", "b", "e", "g", "i", "n", " ", "(", "d", "e", "f", "i", "n", "e",
      " ", "f", " ", "(", "l", "a", "m", "b", "d", "a", " ", "(", "a", " ",
      "b", ")", " ", "(", "+", " ", "a", " ", "b", ")", ")", ")", " ", "(",
      "f", " ", "(", "d", "e", "f", "i", "n", "e", " ", "p", " ", "1", ")",
      " ", "(", "/", " ", "1", " ", "0", ")", ")", ")">>

\* (begin (define x 5) (define x (/ x 0)) (define y 2))
P_FailInDefine ==
    <<"(", "b", "e", "g", "i", "n", " ", "(", "d", "e", "f", "i", "n", "e",
      " ", "x", " ", "5", ")", " ", "(", "d", "e", "f", "i", "n", "e", " ",
      "x", " ", "(", "/", " ", "x", " ", "0", ")", ")", " ", "(", "d", "e",
      "f", "i", "n", "e", " ", "y", " ", "2", ")", ")">>

ScopePrograms ==
    {P_BodyDefineLocal, P_RecursiveDefine, P_NestedShadow,
     P_FailAfterDefine, P_FailSkipsRest, P_FailInOperand, P_FailInArg,
     P_FailInDefine}


\* the decimal digits of n >= 0
RECURSIVE ToDigits(_)
ToDigits(n) ==
    IF n < 10 THEN <<Digits[n + 1]>> ELSE Append(ToDigits(n \div 10), Digits[(n % 10) + 1])

\* the concatenation of a sequence of texts
RECURSIVE Concat(_)
Concat(parts) == IF parts = <<>> THEN <<>> ELSE Head(parts) \o Concat(Tail(parts))

\* (begin (define fib (lambda (n) (if (< n 2) n (+ (fib (- n 1)) (fib (- n 2)))))) (fib
FibPrefix ==
    <<"(", "b", "e", "g", "i", "n", " ", "(", "d", "e", "f", "i", "n", "e",
      " ", "f", "i", "b", " ", "(", "l", "a", "m", "b", "d", "a", " ", "(",
      "n", ")", " ", "(", "i", "f", " ", "(", "<", " ", "n", " ", "2", ")",
      " ", "n", " ", "(", "+", " ", "(", "f", "i", "b", " ", "(", "-", " ",
      "n", " ", "1", ")", ")", " ", "(", "f", "i", "b", " ", "(", "-", " ",
      "n", " ", "2", ")", ")", ")", ")", ")", ")", " ", "(", "f", "i", "b",
      " ">>

\* the program of tests::test_fibonacci with the argument n
FibProgram(n) == Concat(<<FibPrefix, ToDigits(n), <<")", ")">>>>)

FibPrograms == {FibProgram(n) : n \in 0..MaxFib}

\* integer literals, alone and as the only item of a begin form
LiteralValues == {0, 5, 42, MaxInt, MaxInt + 1}

LiteralProgram(n) == ToDigits(n)

\* (begin n)
BeginLiteralProgram(n) ==
    Concat(<<<<"(", "b", "e", "g", "i", "n", " ">>, ToDigits(n), <<")">>>>)

LiteralPrograms ==
    {LiteralProgram(n) : n \in LiteralValues} \cup {BeginLiteralProgram(n) : n \in LiteralValues}

\* operand expressions of the binary forms
OperandMinusOne == <<"(", "-", " ", "0", " ", "1", ")">>
OperandMinusSeven == <<"(", "-", " ", "0", " ", "7", ")">>
OperandMinInt ==
    Concat(<<<<"(", "-", " ", "(", "-", " ", "0", " ">>, ToDigits(MaxInt), <<")", " ", "1", ")">>>>)
OperandComputedZero == <<"(", "-", " ", "1", " ", "1", ")">>
OperandNegativeZero == <<"(", "*", " ", "0", ".", "0", " ", "(", "-", " ", "0", " ", "1", ")", ")">>

Operands ==
    {<<"0">>, <<"2">>, <<"7">>, ToDigits(MaxInt), OperandMinusOne,
     OperandMinusSeven, OperandMinInt, OperandComputedZero, OperandNegativeZero,
     <<"0", ".", "0">>, <<"0", ".", "5">>, <<"2", ".", "5">>,
     <<"\"", "s", "\"">>, <<"(", "<", " ", "1", " ", "2", ")">>, <<"y">>}

\* (op a b)
BinaryProgram(op, a, b) == Concat(<<<<"(", op, " ">>, a, <<" ">>, b, <<")">>>>)

BinaryPrograms == {BinaryProgram(op, a, b) : op \in binary_ops, a \in Operands, b \in Operands}

Programs ==
    FixedPrograms \cup ScopePrograms \cup FibPrograms \cup LiteralPrograms \cup BinaryPrograms

\* ------------------------------------------------------------ the machine
VARIABLES
    program,    \* the source text handed to eval
    build,      \* "debug" or "release": what integer overflow does
    phase,      \* "start" before eval is called, "running", "done"
    ctl,        \* the eval_obj call being made, or the result being returned
    stack,      \* the handlers waiting for a recursive eval_obj to return
    envs,       \* the arena of live Env records; envs[1] is the root
    result,     \* what eval returned
    pc,             \* where main is: "lib" when eval is called without main
    buffer,         \* main: the lines accumulated for one submission
    paren_balance,  \* main: "(" less ")" outside string literals so far
    in_string,      \* main: a string literal is open
    nread,          \* main: the number of lines read
    report          \* main: the last thing written to stdout or stderr

mainvars == <<pc, buffer, paren_balance, in_string, nread, report>>

vars == <<program, build, phase, ctl, stack, envs, result, mainvars>>

NoReport == [stream |-> "none"]

None == [kind |-> "none"]
Idle == [mode |-> "none"]
Call(obj, env) == [mode |-> "eval", obj |-> obj, env |-> env]
Return(res) == [mode |-> "ret", res |-> res]

Top == stack[Len(stack)]
Pop == SubSeq(stack, 1, Len(stack) - 1)
Push(frame) == Append(stack, frame)

Init ==
    /\ program \in Programs
    /\ build \in {"debug", "release"}
    /\ phase = "start"
    /\ ctl = Idle
    /\ stack = <<>>
    /\ envs = <<Env_new>>
    /\ result = None
    /\ pc = "lib"
    /\ buffer = <<>>
    /\ paren_balance = 0
    /\ in_string = FALSE
    /\ nread = 0
    /\ report = NoReport

Step(c, s, e) ==
    /\ ctl' = c
    /\ stack' = s
    /\ envs' = e
    /\ UNCHANGED <<program, build, phase, result, mainvars>>

Evaluating(tag) == ctl.mode = "eval" /\ ctl.obj.tag = tag

\* an eval_obj call on a List whose head has the given tag
EvaluatingList(tag) ==
    /\ Evaluating("List")
    /\ ctl.obj.items # <<>>
    /\ ctl.obj.items[1].tag = tag

EvaluatingKeyword(kw) == EvaluatingList("Keyword") /\ ctl.obj.items[1].v = kw

\* a successful return to the handler fn
ReturnedTo(fn) ==
    /\ ctl.mode = "ret"
    /\ ctl.res.kind = "ok"
    /\ stack # <<>>
    /\ Top.fn = fn

\* eval: tokenize and parse the program, then eval_obj on the root scope
eval ==
    /\ phase = "start"
    /\ LET ast == parse(program)
       IN  IF ast.kind = "ok"
           THEN /\ phase' = "running"
                /\ ctl' = Call(ast.val, 1)
                /\ result' = result
           ELSE /\ phase' = "done"
                /\ ctl' = Idle
                /\ result' = IF ast.kind = "panic" THEN ast
                             ELSE Err("ParseError: " \o ast.msg)
    /\ UNCHANGED <<program, build, stack, envs, mainvars>>

\* eval_obj on anything but a List
eval_obj ==
    /\ ctl.mode = "eval"
    /\ ctl.obj.tag # "List"
    /\ Step(Return(EvalAtom(envs, ctl.env, ctl.obj)), stack, envs)

\* eval_list and eval_keyword: the lists no handler takes
eval_list ==
    /\ Evaluating("List")
    /\ LET list == ctl.obj.items
       IN  /\ IF list = <<>> THEN TRUE
              ELSE IF list[1].tag = "Keyword"
              THEN list[1].v \notin {"begin", "define", "if", "lambda"}
              ELSE list[1].tag \notin {"BinaryOp", "Symbol"}
           /\ Step(Return(IF list = <<>> THEN Err("Empty list")
                          ELSE IF list[1].tag = "Keyword" THEN Err("Unsupported keyword")
                          ELSE Err("Invalid list op")),
                   stack, envs)

\* eval_begin up to its first eval_obj
eval_begin ==
    /\ EvaluatingKeyword("begin")
    /\ LET list == ctl.obj.items
       IN  IF Len(list) = 1
           THEN Step(Return(Ok(Void)), stack, envs)
           ELSE Step(Call(list[2], ctl.env),
                     Push([fn |-> "eval_begin", list |-> list, env |-> ctl.env, i |-> 2]),
                     envs)

\* eval_begin when an item has been evaluated: the next item, or the result
eval_begin_next ==
    /\ ReturnedTo("eval_begin")
    /\ IF Top.i = Len(Top.list)
       THEN Step(ctl, Pop, envs)
       ELSE Step(Call(Top.list[Top.i + 1], Top.env),
                 Append(Pop, [Top EXCEPT !.i = @ + 1]),
                 envs)

\* eval_define up to its eval_obj
eval_define ==
    /\ EvaluatingKeyword("define")
    /\ LET list == ctl.obj.items
       IN  IF Len(list) < 2 THEN Step(Return(Panic("index out of bounds")), stack, envs)
           ELSE IF list[2].tag # "Symbol"
           THEN Step(Return(Err("Invalid define syntax")), stack, envs)
           ELSE IF Len(list) < 3 THEN Step(Return(Panic("index out of bounds")), stack, envs)
           ELSE Step(Call(list[3], ctl.env),
                     Push([fn |-> "eval_define", sym |-> list[2].v, env |-> ctl.env]),
                     envs)

\* eval_define when the value has been evaluated
eval_define_set ==
    /\ ReturnedTo("eval_define")
    /\ Step(Return(Ok(Void)), Pop, Env_set(envs, Top.env, Top.sym, ctl.res.val))

\* eval_binary_op up to the evaluation of the left operand
eval_binary_op ==
    /\ EvaluatingList("BinaryOp")
    /\ LET list == ctl.obj.items
       IN  IF Len(list) # 3
           THEN Step(Return(Err("Invalid binary operation")), stack, envs)
           ELSE Step(Call(list[2], ctl.env),
                     Push([fn |-> "eval_binary_op", stage |-> "left",
                           list |-> list, env |-> ctl.env]),
                     envs)

\* eval_binary_op when the left operand has been evaluated
eval_binary_op_left ==
    /\ ReturnedTo("eval_binary_op")
    /\ Top.stage = "left"
    /\ Step(Call(Top.list[3], Top.env),
            Append(Pop, [fn |-> "eval_binary_op", stage |-> "right",
                         list |-> Top.list, env |-> Top.env, left |-> ctl.res.val]),
            envs)

\* eval_binary_op when the right operand has been evaluated
eval_binary_op_right ==
    /\ ReturnedTo("eval_binary_op")
    /\ Top.stage = "right"
    /\ Step(Return(BinaryOpResult(build, Top.list[1].v, Top.left, ctl.res.val)), Pop, envs)

\* eval_if up to the evaluation of the condition
eval_if ==
    /\ EvaluatingKeyword("if")
    /\ LET list == ctl.obj.items
       IN  IF Len(list) < 2 THEN Step(Return(Panic("index out of bounds")), stack, envs)
           ELSE Step(Call(list[2], ctl.env),
                     Push([fn |-> "eval_if", list |-> list, env |-> ctl.env]),
                     envs)

\* eval_if when the condition has been evaluated: the tail call on a branch
eval_if_branch ==
    /\ ReturnedTo("eval_if")
    /\ LET cond_obj == ctl.res.val
       IN  IF cond_obj.tag # "Bool"
           THEN Step(Return(Err("Condition must be a boolean")), Pop, envs)
           ELSE IF Len(Top.list) < IfBranch(cond_obj.bool)
           THEN Step(Return(Panic("index out of bounds")), Pop, envs)
           ELSE Step(Call(Top.list[IfBranch(cond_obj.bool)], Top.env), Pop, envs)

\* eval_function_definition
eval_function_definition ==
    /\ EvaluatingKeyword("lambda")
    /\ Step(Return(FunctionDefinition(ctl.obj.items)), stack, envs)

\* the loop of eval_function_call at parameter i, func_env being the last
\* scope of the arena es: evaluate the argument list[i + 1] in the caller's
\* scope, or the body in func_env when every parameter is bound; indexing past
\* the end of the call form panics and drops func_env
BindFrom(list, env, params, body, func_env, i, es, stk) ==
    IF i > Len(params)
    THEN Step(Call(CallBody(body), func_env),
              Append(stk, [fn |-> "eval_function_call", stage |-> "body",
                           func_env |-> func_env]),
              es)
    ELSE IF Len(list) < i + 1
    THEN Step(Return(Panic("index out of bounds")), stk, SubSeq(es, 1, func_env - 1))
    ELSE Step(Call(list[i + 1], env),
              Append(stk, [fn |-> "eval_function_call", stage |-> "args",
                           list |-> list, env |-> env, params |-> params,
                           body |-> body, func_env |-> func_env, i |-> i]),
              es)

\* eval_function_call up to its first eval_obj
eval_function_call ==
    /\ EvaluatingList("Symbol")
    /\ LET list == ctl.obj.items
           lambda == Env_get(envs, ctl.env, list[1].v)
       IN  IF lambda.kind = "none"
           THEN Step(Return(Err("Undefined function")), stack, envs)
           ELSE IF lambda.val.tag # "Lambda"
           THEN Step(Return(Err("is not a function")), stack, envs)
           ELSE BindFrom(list, ctl.env, lambda.val.params, lambda.val.body,
                         Len(envs) + 1, 1, Append(envs, Env_extend(ctl.env)), stack)

\* eval_function_call when an argument has been evaluated
eval_function_call_arg ==
    /\ ReturnedTo("eval_function_call")
    /\ Top.stage = "args"
    /\ BindFrom(Top.list, Top.env, Top.params, Top.body, Top.func_env, Top.i + 1,
                Env_set(envs, Top.func_env, Top.params[Top.i], ctl.res.val), Pop)

\* eval_function_call when the body has been evaluated: func_env is dropped
eval_function_call_return ==
    /\ ReturnedTo("eval_function_call")
    /\ Top.stage = "body"
    /\ Step(ctl, Pop, SubSeq(envs, 1, Top.func_env - 1))

\* a propagation that also undoes the bindings written so far
propagate_rollback ==
    /\ ctl.mode = "ret"
    /\ ctl.res.kind # "ok"
    /\ stack # <<>>
    /\ Step(ctl, Pop, <<Env_new>>)

\* the ? operator, and the unwinding of a panic: the waiting handler returns
\* the failure at once; a waiting eval_function_call drops its func_env
propagate ==
    /\ ctl.mode = "ret"
    /\ ctl.res.kind # "ok"
    /\ stack # <<>>
    /\ Step(ctl, Pop,
            IF Top.fn = "eval_function_call" THEN SubSeq(envs, 1, Top.func_env - 1)
            ELSE envs)

\* the outermost eval_obj returns to eval, and eval to its caller
eval_return ==
    /\ phase = "running"
    /\ ctl.mode = "ret"
    /\ stack = <<>>
    /\ phase' = "done"
    /\ result' = ctl.res
    /\ ctl' = Idle
    /\ UNCHANGED <<program, build, stack, envs, mainvars>>

Next ==
    \/ eval
    \/ eval_obj
    \/ eval_list
    \/ eval_begin
    \/ eval_begin_next
    \/ eval_define
    \/ eval_define_set
    \/ eval_binary_op
    \/ eval_binary_op_left
    \/ eval_binary_op_right
    \/ eval_if
    \/ eval_if_branch
    \/ eval_function_definition
    \/ eval_function_call
    \/ eval_function_call_arg
    \/ eval_function_call_return
    \/ propagate
    \/ eval_return

Spec == Init /\ [][Next]_vars

\* ------------------------------------------------------------ main.rs
MaxLines == 3

\* update_paren_balance from position k of the line on
RECURSIVE update_paren_balance(_, _, _, _)
update_paren_balance(line, k, balance, instr) ==
    IF k > Len(line) THEN [balance |-> balance, in_string |-> instr]
    ELSE IF line[k] = "\"" THEN update_paren_balance(line, k + 1, balance, ~instr)
    ELSE IF line[k] = "(" /\ ~instr THEN update_paren_balance(line, k + 1, balance + 1, instr)
    ELSE IF line[k] = ")" /\ ~instr THEN update_paren_balance(line, k + 1, balance - 1, instr)
    ELSE update_paren_balance(line, k + 1, balance, instr)

\* str::trim
RECURSIVE TrimStart(_)
TrimStart(t) == IF t # <<>> /\ is_whitespace(Head(t)) THEN TrimStart(Tail(t)) ELSE t

RECURSIVE TrimEnd(_)
TrimEnd(t) ==
    IF t # <<>> /\ is_whitespace(t[Len(t)]) THEN TrimEnd(SubSeq(t, 1, Len(t) - 1)) ELSE t

trim(t) == TrimEnd(TrimStart(t))

\* the lines the reader hands to main
\* (define f (lambda (x) (if (< x 1) (begin x 7) ())))
L_DefineF ==
    <<"(", "d", "e", "f", "i", "n", "e", " ", "f", " ", "(", "l", "a", "m",
      "b", "d", "a", " ", "(", "x", ")", " ", "(", "i", "f", " ", "(", "<",
      " ", "x", " ", "1", ")", " ", "(", "b", "e", "g", "i", "n", " ", "x",
      " ", "7", ")", " ", "(", ")", ")", ")", ")">>

\* (f 0)
L_CallOk ==
    <<"(", "f", " ", "0", ")">>

\* (f 1)
L_CallFails ==
    <<"(", "f", " ", "1", ")">>

\* )(
L_CloseOpen ==
    <<")", "(">>

\* )
L_Close ==
    <<")">>

\* (begin
L_OpenBegin ==
    <<"(", "b", "e", "g", "i", "n">>

\* exit
L_Exit ==
    <<"e", "x", "i", "t">>

\* 
L_Blank == <<>>

\* (begin ")"
L_CloseInString ==
    <<"(", "b", "e", "g", "i", "n", " ", "\"", ")", "\"">>

\* "
L_Quote ==
    <<"\"">>

Lines ==
    {L_DefineF, L_CallOk, L_CallFails, L_CloseOpen, L_Close, L_OpenBegin,
     L_Exit, L_Blank, L_CloseInString, L_Quote}


ReplInit ==
    /\ program = <<>>
    /\ build \in {"debug", "release"}
    /\ phase = "idle"
    /\ ctl = Idle
    /\ stack = <<>>
    /\ envs = <<Env_new>>
    /\ result = None
    /\ pc = "read"
    /\ buffer = <<>>
    /\ paren_balance = 0
    /\ in_string = FALSE
    /\ nread = 0
    /\ report = NoReport

\* buffer.clear(); paren_balance = 0; in_string = false
ClearBuffer ==
    /\ buffer' = <<>>
    /\ paren_balance' = 0
    /\ in_string' = FALSE

\* one turn of the while loop of main on the line `input`, up to its continue,
\* its break or its call of eval
main_read_line ==
    /\ pc = "read"
    /\ nread < MaxLines
    /\ \E input \in Lines :
          LET b == update_paren_balance(input, 1, paren_balance, in_string)
              joined == IF buffer # <<>> THEN buffer \o <<"\n">> \o input ELSE input
          IN  /\ nread' = nread + 1
              /\ IF buffer = <<>> /\ input = L_Exit
                 THEN /\ pc' = "exited"
                      /\ report' = [stream |-> "stdout", text |-> "Good bye"]
                      /\ UNCHANGED <<buffer, paren_balance, in_string, program, phase, result>>
                 ELSE IF b.in_string \/ b.balance > 0
                 THEN /\ pc' = "read"
                      /\ buffer' = joined
                      /\ paren_balance' = b.balance
                      /\ in_string' = b.in_string
                      /\ report' = [stream |-> "prompt", text |-> "....> "]
                      /\ UNCHANGED <<program, phase, result>>
                 ELSE IF b.balance < 0
                 THEN /\ pc' = "read"
                      /\ ClearBuffer
                      /\ report' = [stream |-> "stderr", text |-> "ParseError: Unexpected ')'"]
                      /\ UNCHANGED <<program, phase, result>>
                 ELSE IF trim(joined) = <<>>
                 THEN /\ pc' = "read"
                      /\ ClearBuffer
                      /\ report' = [stream |-> "prompt", text |-> "mr-lisp> "]
                      /\ UNCHANGED <<program, phase, result>>
                 ELSE /\ pc' = "eval"
                      /\ buffer' = joined
                      /\ paren_balance' = b.balance
                      /\ in_string' = b.in_string
                      /\ program' = trim(joined)
                      /\ phase' = "start"
                      /\ result' = None
                      /\ report' = report
    /\ UNCHANGED <<build, ctl, stack, envs>>

\* read_line returns something other than an input line: the loop ends
main_end_of_input ==
    /\ pc = "read"
    /\ pc' = "exited"
    /\ report' = [stream |-> "stdout", text |-> "Good bye"]
    /\ UNCHANGED <<program, build, phase, ctl, stack, envs, result,
                   buffer, paren_balance, in_string, nread>>

\* main when eval has returned: the ? operator returns an Err from main, a
\* panic aborts the process, a value is printed (Void is not) and the loop
\* goes on with an empty buffer
main_result ==
    /\ pc = "eval"
    /\ phase = "done"
    /\ IF result.kind = "err"
       THEN /\ pc' = "failed"
            /\ report' = [stream |-> "stderr", text |-> result.msg]
            /\ UNCHANGED <<buffer, paren_balance, in_string, phase>>
       ELSE IF result.kind = "panic"
       THEN /\ pc' = "aborted"
            /\ report' = [stream |-> "stderr", text |-> result.msg]
            /\ UNCHANGED <<buffer, paren_balance, in_string, phase>>
       ELSE /\ pc' = "read"
            /\ phase' = "idle"
            /\ ClearBuffer
            /\ report' = IF result.val = Void THEN [stream |-> "prompt", text |-> "mr-lisp> "]
                         ELSE [stream |-> "stdout", val |-> result.val]
    /\ UNCHANGED <<program, build, ctl, stack, envs, result, nread>>

ReplNext ==
    \/ main_read_line
    \/ main_end_of_input
    \/ main_result
    \/ Next

ReplSpec == ReplInit /\ [][ReplNext]_vars

\* ------------------------------------------------------------ properties
Done == phase = "done"

RootVars == envs[1].vars

Bound(name, val) == name \in DOMAIN RootVars /\ RootVars[name] = val

RECURSIVE Fib(_)
Fib(n) == IF n < 2 THEN n ELSE Fib(n - 1) + Fib(n - 2)

\* the Lambda that the call form under evaluation names
Callee == Env_get(envs, ctl.env, ctl.obj.items[1].v)

CallsLambda ==
    /\ EvaluatingList("Symbol")
    /\ Callee.kind = "some"
    /\ Callee.val.tag = "Lambda"

ArgReturned == ReturnedTo("eval_function_call") /\ Top.stage = "args"

\* C1, the steps of a call: the call of a Lambda appends a fresh empty scope
\* whose parent is the scope of the call site; every argument is evaluated in
\* the scope of the call site and bound to the parameter of its position in
\* the fresh scope; the body is evaluated in the fresh scope
C1_CallSteps ==
    /\ (CallsLambda /\ ctl'.mode = "eval") =>
          /\ envs' = Append(envs, [parent |-> ctl.env, vars |-> EmptyVars])
          /\ ctl'.env = IF Callee.val.params = <<>> THEN Len(envs) + 1 ELSE ctl.env
          /\ Callee.val.params # <<>> => ctl'.obj = ctl.obj.items[2]
    /\ (ArgReturned /\ ctl'.mode = "eval") =>
          /\ envs' = [envs EXCEPT ![Top.func_env].vars =
                          Insert(@, Top.params[Top.i], ctl.res.val)]
          /\ envs[Top.func_env].parent = Top.env
          /\ IF Top.i = Len(Top.params)
             THEN ctl'.env = Top.func_env
             ELSE ctl' = Call(Top.list[Top.i + 2], Top.env)

\* C1, the results: fib(n) for every n up to MaxFib; a free name of a body
\* resolves in the scope of the active caller; arguments are evaluated at the
\* call site and bound in order
C1_CallResults ==
    Done =>
        /\ \A n \in 0..MaxFib : program = FibProgram(n) => result = Ok(Integer(Fib(n)))
        /\ program = P_Sqr => result = Ok(Integer(100))
        /\ program = P_DynamicScope => result = Ok(Integer(6))
        /\ program = P_ArgsInCaller => result = Ok(Integer(6))
        /\ program = P_ArgOrder => result = Ok(Integer(5))
        /\ program = P_DupParams => result = Ok(Integer(2))
        /\ program = P_NestedArgCall => result = Ok(Integer(5))

\* C1: a call of a symbol bound to a Lambda creates a fresh environment whose
\* parent is the environment of the call site, binds each parameter in order
\* there to its argument evaluated in the call-site environment and evaluates
\* the body there; free names resolve through the chain of active callers and
\* the doubly-recursive fib returns fib(n) for every n up to MaxFib
C1_DynamicCall == []C1_CallResults /\ [][C1_CallSteps]_vars

C1_Witness ==
    /\ Done
    /\ program = FibProgram(MaxFib)
    /\ result = Ok(Integer(Fib(MaxFib)))

\* C2, the steps of begin and define: every item is evaluated in the scope
\* the form was given, a define writes its value into that scope, and the
\* value of the last item is the result
C2_BeginSteps ==
    /\ (EvaluatingKeyword("begin") /\ Len(ctl.obj.items) > 1) =>
          ctl' = Call(ctl.obj.items[2], ctl.env)
    /\ (EvaluatingKeyword("begin") /\ Len(ctl.obj.items) = 1) =>
          ctl' = Return(Ok(Void))
    /\ ReturnedTo("eval_begin") =>
          /\ envs' = envs
          /\ IF Top.i = Len(Top.list)
             THEN ctl' = ctl
             ELSE ctl' = Call(Top.list[Top.i + 1], Top.env)
    /\ (EvaluatingKeyword("define") /\ ctl'.mode = "eval") =>
          /\ ctl'.env = ctl.env
          /\ stack'[Len(stack')].env = ctl.env
    /\ ReturnedTo("eval_define") =>
          /\ Top.sym \in DOMAIN envs'[Top.env].vars
          /\ envs'[Top.env].vars[Top.sym] = ctl.res.val
          /\ ctl' = Return(Ok(Void))

C2_BeginResults ==
    Done =>
        /\ program = P_BeginDefine =>
              /\ result = Ok(Integer(15))
              /\ DOMAIN RootVars = {"x", "y"}
              /\ Bound("x", Integer(5))
              /\ Bound("y", Integer(10))
        /\ program = P_BeginEmpty => result = Ok(Void) /\ DOMAIN RootVars = {}
        /\ program = P_BeginRedefine => result = Ok(Integer(6)) /\ Bound("x", Integer(6))
        /\ program = P_BeginString => result = Ok(Float(<<5, 2>>))

\* C2: a begin form evaluates its items left to right in the environment it
\* was given, each define binds its value there so that later items see it,
\* the result is the value of the last item (Void without items), and after
\* eval returns the supplied environment holds every binding defined
C2_BeginInPlace == []C2_BeginResults /\ [][C2_BeginSteps]_vars

C2_Witness ==
    /\ Done
    /\ program = P_BeginDefine
    /\ result = Ok(Integer(15))
    /\ Bound("x", Integer(5))
    /\ Bound("y", Integer(10))

IncompleteKeywordForms ==
    {P_Define0, P_Define1, P_If1True, P_If2False, P_Lambda0, P_Lambda1}

\* C3: for every structurally incomplete keyword form eval returns a result
\* or an error value and never aborts; (define), (define x), (if c), (if c a)
\* with c false, (lambda) and (lambda (x)) each return an error
C3_IncompleteFormsReturnError ==
    (Done /\ program \in IncompleteKeywordForms) => result.kind = "err"

BinaryReturned == ReturnedTo("eval_binary_op") /\ Top.stage = "right"

\* the fraction a is less than the fraction b
FracLess(a, b) == a[1] * b[2] < b[1] * a[2]

\* l op r on the integers, the quotient truncated toward zero
Exact(s, l, r) ==
    CASE s = "+" -> l + r
      [] s = "-" -> l - r
      [] s = "*" -> l * r
      [] s = "/" -> TruncDiv(l, r)

ReturnsError == ctl'.mode = "ret" /\ ctl'.res.kind = "err"

\* C4, the steps of a binary form
C4_BinarySteps ==
    /\ (EvaluatingList("BinaryOp") /\ Len(ctl.obj.items) # 3) => ReturnsError
    /\ (EvaluatingList("BinaryOp") /\ Len(ctl.obj.items) = 3) =>
          ctl' = Call(ctl.obj.items[2], ctl.env)
    /\ (ReturnedTo("eval_binary_op") /\ Top.stage = "left") =>
          ctl' = Call(Top.list[3], Top.env)
    /\ BinaryReturned =>
          LET s == Top.list[1].v
              left == Top.left
              right == ctl.res.val
          IN  IF s \in {"%", "=", "|", "&"} THEN ReturnsError
              ELSE IF ~IsNumber(left) \/ ~IsNumber(right) THEN ReturnsError
              ELSE IF s = "<" THEN ctl' = Return(Ok(Bool(FracLess(AsF64(left), AsF64(right)))))
              ELSE IF s = ">" THEN ctl' = Return(Ok(Bool(FracLess(AsF64(right), AsF64(left)))))
              ELSE IF s = "/" /\ AsF64(right)[1] = 0 THEN TRUE
              ELSE IF left.tag = "Integer" /\ right.tag = "Integer"
              THEN ctl' = Return(Ok(Integer(Exact(s, left.int, right.int))))
              ELSE /\ ctl'.mode = "ret"
                   /\ ctl'.res.kind = "ok"
                   /\ ctl'.res.val.tag = "Float"

\* C4: a list of exactly 3 elements headed by + - * / whose operands both
\* evaluate to numbers (divisor non-zero) yields Integer(l op r) for two
\* Integers and a Float otherwise; < and > yield the Bool comparison; both
\* operands are always evaluated; a length other than 3, a non-number operand
\* or an operator among % = | & yields an error value
C4_BinaryArithmetic == [][C4_BinarySteps]_vars

\* C5, the step: the quotient of a number by a zero of either type is the
\* division-by-zero error, and no Float returned has a zero denominator
C5_DivisionStep ==
    /\ (/\ BinaryReturned
        /\ Top.list[1].v = "/"
        /\ IsNumber(Top.left)
        /\ IsNumber(ctl.res.val)
        /\ AsF64(ctl.res.val)[1] = 0) => ctl' = Return(Err("Division by zero"))
    /\ (ctl'.mode = "ret" /\ ctl'.res.kind = "ok" /\ ctl'.res.val.tag = "Float") =>
          ctl'.res.val.float[2] > 0

\* C5: for the / operator, whenever the right operand evaluates to zero
\* (Integer 0 or Float 0.0) and the left operand is a number of either type,
\* eval returns a division-by-zero error and never a value
C5_DivisionByZero == [][C5_DivisionStep]_vars

C5_Witness ==
    /\ Done
    /\ program = BinaryProgram("/", <<"7">>, <<"0", ".", "0">>)
    /\ result = Err("Division by zero")

\* C6, the steps of if: the condition is evaluated in the scope of the form;
\* when it has returned, the form stops waiting and only the selected branch
\* is evaluated, in the same scope, with no scope changed; a condition that is
\* no Bool returns the type error with no branch evaluated
C6_IfSteps ==
    /\ (EvaluatingKeyword("if") /\ Len(ctl.obj.items) >= 2) =>
          /\ ctl' = Call(ctl.obj.items[2], ctl.env)
          /\ envs' = envs
    /\ ReturnedTo("eval_if") =>
          /\ envs' = envs
          /\ stack' = Pop
          /\ IF ctl.res.val.tag # "Bool"
             THEN ctl' = Return(Err("Condition must be a boolean"))
             ELSE IF ctl'.mode = "eval"
             THEN ctl' = Call(Top.list[IF ctl.res.val.bool THEN 3 ELSE 4], Top.env)
             ELSE /\ ctl'.res.kind = "panic"
                  /\ Len(Top.list) < (IF ctl.res.val.bool THEN 3 ELSE 4)

C6_IfResults ==
    Done =>
        /\ program = P_IfLazyTrue => result = Ok(Integer(10))
        /\ program = P_IfLazyFalse => result = Ok(Integer(20))
        /\ program = P_IfPlain => result = Ok(Integer(10))
        /\ program = P_IfNotBool => result.kind = "err" /\ DOMAIN RootVars = {}
        /\ program = P_IfDefines =>
              /\ result = Ok(Void)
              /\ DOMAIN RootVars = {"a", "d"}

\* C6: an if form evaluates its condition once and then only the selected
\* branch, the consequent when the condition is true and the alternate when it
\* is false; the other branch is never evaluated, so it can neither fail nor
\* change the environment; a condition that is no Bool yields a type error and
\* no branch is evaluated
C6_IfLazy == []C6_IfResults /\ [][C6_IfSteps]_vars

C6_Witness ==
    /\ Done
    /\ program = P_IfLazyTrue
    /\ result = Ok(Integer(10))
    /\ DOMAIN RootVars = {}

FittingLiterals == {n \in LiteralValues : n <= MaxInt}

\* C7 as stated: for any integer literal n, the source consisting of just that
\* literal makes eval return Integer n, with the environment unchanged
C7_LiteralEvaluates ==
    \A n \in FittingLiterals :
        (Done /\ program = LiteralProgram(n)) =>
            /\ result = Ok(Integer(n))
            /\ envs = <<Env_new>>

\* C7 as amended: for any integer literal n that fits the Integer width, the
\* source consisting of just that literal makes eval return the parse error
\* of an input that does not begin with a parenthesis, and the same literal as
\* the only item of a begin form returns Integer n; the environment is
\* unchanged in both cases
C7_LiteralNeedsList ==
    \A n \in FittingLiterals :
        /\ (Done /\ program = LiteralProgram(n)) =>
              /\ result = Err("ParseError: Expected '(' at the beginning of list")
              /\ envs = <<Env_new>>
        /\ (Done /\ program = BeginLiteralProgram(n)) =>
              /\ result = Ok(Integer(n))
              /\ envs = <<Env_new>>

C7_Witness ==
    /\ Done
    /\ program = LiteralProgram(5)
    /\ result.kind = "err"

\* the number of "(" less the number of ")" among the first k tokens
Depth(tokens, k) ==
    Cardinality({j \in 1..k : tokens[j] = LParen})
        - Cardinality({j \in 1..k : tokens[j] = RParen})

\* the token sequence is one delimiter-balanced List and nothing else
ExactlyOneList(tokens) ==
    /\ tokens # <<>>
    /\ tokens[1] = LParen
    /\ \A k \in 1..(Len(tokens) - 1) : Depth(tokens, k) > 0
    /\ Depth(tokens, Len(tokens)) = 0

\* C8: parse returns an AST only when the whole token sequence of the input
\* is exactly one delimiter-balanced List; it fails when the first token is no
\* "(", when a List is still open at the end of the input, and when further
\* tokens follow the ")" that closes the root List
C8_ParseExactlyOneList ==
    /\ (phase = "running" /\ stack = <<>> /\ ctl.mode = "eval") =>
          ExactlyOneList(tokenize(program).val)
    /\ (Done /\ program \in {P_NoOpen, P_NoClose, P_Siblings, P_StrayClose}) =>
          result.kind = "err"

TooFewArguments == {P_TooFew1of2, P_TooFew0of1, P_TooFewSideEffect}

\* C9: a call with fewer argument expressions than the Lambda has parameters
\* makes eval return an arity error value, and the body is not evaluated
C9_TooFewArgumentsReturnError ==
    /\ (Done /\ program \in TooFewArguments) => result.kind = "err"
    /\ (Done /\ program = P_TooFewSideEffect) => "z" \notin DOMAIN RootVars

\* a step of eval_function_call after which the body is being evaluated
BodyStarts ==
    /\ CallsLambda \/ ArgReturned
    /\ ctl'.mode = "eval"
    /\ stack' # <<>>
    /\ stack'[Len(stack')].fn = "eval_function_call"
    /\ stack'[Len(stack')].stage = "body"

\* the stored body of the Lambda being called
BodyCalled == IF CallsLambda THEN Callee.val.body ELSE Top.body

BodyReturned == ReturnedTo("eval_function_call") /\ Top.stage = "body"

\* C10 as stated: the stored body is evaluated as a sequence of expressions,
\* its elements one after the other in the new call environment, and the call
\* returns the value of the last one
C10_BodySequence ==
    [][BodyStarts =>
          /\ BodyCalled # <<>>
          /\ ctl' = Call(BodyCalled[1], stack'[Len(stack')].func_env)]_vars

C10_BodySteps ==
    /\ BodyStarts =>
          ctl' = Call(List(BodyCalled), stack'[Len(stack')].func_env)
    /\ BodyReturned => ctl' = ctl

C10_BodyResults ==
    Done =>
        /\ program = P_Sqr => result = Ok(Integer(100))
        /\ program = P_BodySequence => result = Err("Invalid list op")
        /\ program = P_BodyTwoForms => result = Ok(Integer(2))
        /\ program = P_BodyBegin => result = Ok(Integer(8))
        /\ program = P_BodyAtom => result = Err("Invalid lambda body")
        /\ program = P_BodyEmpty => result = Err("Empty list")

\* C10 as amended: the stored body is the element sequence of the one List
\* that is the third element of the lambda form (a third element that is no
\* List is an error, further elements are ignored); a call evaluates that List
\* as a single expression in the new call environment, its head deciding how,
\* and returns the value of that expression
C10_BodySingleForm == []C10_BodyResults /\ [][C10_BodySteps]_vars

C10_Witness ==
    /\ Done
    /\ program = P_BodySequence
    /\ result = Err("Invalid list op")

\* the positions of the stack at which a call waits for its body
BodyFrames ==
    {k \in 1..Len(stack) :
        stack[k].fn = "eval_function_call" /\ stack[k].stage = "body"}

\* C13, the steps: while a call waits for its body, no step changes a scope
\* older than the scope of the call (the caller, its ancestors up to the root
\* and every other scope alive at the call), and when the body has returned
\* or failed the scope of the call is dropped
C13_ScopeSteps ==
    /\ \A k \in BodyFrames :
          Len(stack') >= k =>
              /\ Len(envs') >= stack[k].func_env
              /\ SubSeq(envs', 1, stack[k].func_env - 1)
                    = SubSeq(envs, 1, stack[k].func_env - 1)
    /\ (ctl.mode = "ret" /\ Len(stack) \in BodyFrames) =>
          envs' = SubSeq(envs, 1, Top.func_env - 1)
    /\ (ReturnedTo("eval_define") /\ BodyFrames # {}) =>
          \A k \in BodyFrames : Top.env >= stack[k].func_env

C13_ScopeResults ==
    Done =>
        /\ Len(envs) = 1
        /\ program = P_DefineInBody =>
              /\ result = Ok(Integer(7))
              /\ Bound("x", Integer(1))
        /\ program = P_BodyDefineLocal =>
              /\ result = Err("Undefined symbol")
              /\ DOMAIN RootVars = {"f"}
        /\ program = P_RecursiveDefine =>
              /\ result = Ok(Integer(9))
              /\ Bound("n", Integer(9))
        /\ program = P_NestedShadow => result = Ok(Integer(5))

\* C13: a define evaluated inside a lambda body writes only into the
\* environment of that call: across nested and recursive calls the bindings of
\* the caller and of every ancestor up to the root are left unchanged by the
\* evaluation of the body (a define of an outer name shadows it, never
\* overwrites it), and the binding is gone for the caller after the call
C13_DefineIsLocal == []C13_ScopeResults /\ [][C13_ScopeSteps]_vars

C13_Witness ==
    /\ Done
    /\ program = P_DefineInBody
    /\ result = Ok(Integer(7))
    /\ Bound("x", Integer(1))

Failing == ctl.mode = "ret" /\ ctl.res.kind = "err"

\* C14, the steps: once an evaluation has returned an error, every waiting
\* handler returns that error without evaluating anything, no binding is
\* changed (only the scope of a call that is abandoned is dropped), and eval
\* returns the error
C14_FailSteps ==
    /\ (Failing /\ stack # <<>>) =>
          /\ ctl' = ctl
          /\ stack' = Pop
          /\ Len(envs') >= 1
          /\ Len(envs') >= Len(envs) - 1
          /\ envs' = SubSeq(envs, 1, Len(envs'))
    /\ (Failing /\ stack = <<>>) =>
          /\ result' = ctl.res
          /\ phase' = "done"
          /\ envs' = envs

C14_FailResults ==
    Done =>
        /\ program \in {P_FailAfterDefine, P_FailSkipsRest, P_FailInOperand, P_FailInDefine} =>
              /\ result = Err("Division by zero")
              /\ DOMAIN RootVars = {"x"}
              /\ Bound("x", Integer(5))
        /\ program = P_FailInArg =>
              /\ result = Err("Division by zero")
              /\ DOMAIN RootVars = {"f", "p"}
              /\ Bound("p", Integer(1))
        /\ program = P_BodyFails =>
              /\ result = Err("Division by zero")
              /\ DOMAIN RootVars = {"f", "x"}
              /\ Bound("x", Integer(3))

\* C14: when a subexpression of a top-level form fails, eval returns that
\* error at once and evaluates no expression after the failing one, but the
\* environment is not rolled back: every binding written by a define that
\* completed before the failure stays (x = 5 after (begin (define x 5)
\* (/ 1 0))), and the bindings not touched before the failure are unchanged
C14_FailKeepsBindings == []C14_FailResults /\ [][C14_FailSteps]_vars

C14_Witness ==
    /\ Done
    /\ program = P_FailAfterDefine
    /\ result = Err("Division by zero")
    /\ Bound("x", Integer(5))

Stopped == pc \in {"exited", "failed", "aborted"}

\* C11, the step of main after eval has returned an error
C11_ErrorStep ==
    /\ (pc = "eval" /\ phase = "done" /\ result.kind = "err") =>
          /\ pc' = "read"
          /\ report' = [stream |-> "stderr", text |-> result.msg]
          /\ buffer' = <<>>
          /\ paren_balance' = 0
          /\ envs' = envs
    /\ (~Stopped /\ Stopped') => pc = "read" /\ pc' = "exited"

\* C11: in the REPL loop, whenever a forwarded submission makes eval return
\* an error, the session continues: the error is reported, the loop reads the
\* next line with an empty buffer, balance 0 and the same root environment, and
\* the process ends only on the exit line or at the end of the input
C11_ErrorKeepsSession == [][C11_ErrorStep]_vars

\* the running balance of the text, counted character by character outside
\* string literals from the given balance on, is negative at some point
RECURSIVE GoesNegative(_, _, _, _)
GoesNegative(text, k, balance, instr) ==
    IF balance < 0 THEN TRUE
    ELSE IF k > Len(text) THEN FALSE
    ELSE IF text[k] = "\"" THEN GoesNegative(text, k + 1, balance, ~instr)
    ELSE IF text[k] = "(" /\ ~instr THEN GoesNegative(text, k + 1, balance + 1, instr)
    ELSE IF text[k] = ")" /\ ~instr THEN GoesNegative(text, k + 1, balance - 1, instr)
    ELSE GoesNegative(text, k + 1, balance, instr)

PrematureClose(text) == GoesNegative(text, 1, 0, FALSE)

\* C12, the states: main never holds a buffer with a premature ")"
C12_NoPrematureClose == ~PrematureClose(buffer)

\* C12, the step that forwards a buffer to eval
C12_ForwardStep ==
    (pc = "read" /\ pc' = "eval") =>
        /\ ~PrematureClose(buffer')
        /\ update_paren_balance(buffer', 1, 0, FALSE) = [balance |-> 0, in_string |-> FALSE]
        /\ program' = trim(buffer')

\* C12: the REPL loop rejects premature closing parentheses: a buffer in
\* which some ")" outside a string literal comes before a matching "(" is
\* reported as Unexpected ) and cleared and is never forwarded to eval; only
\* buffers that are balanced and have no open string literal are forwarded
C12_RejectsPrematureClose == []C12_NoPrematureClose /\ [][C12_ForwardStep]_vars

====
